---- MODULE Spec2Model ----
(***************************************************************************)
(* Gated-alternative flows of cheffu: the gate algebra (parallel/gate.rs), *)
(* split-set normalization and walk resolution (parallel/flow.rs), the     *)
(* scope manager (variant/scope.rs), walk-item processing                  *)
(* (variant/parallel.rs) and meta-level processing (processor/mod.rs).     *)
(***************************************************************************)
EXTENDS Integers, Sequences, FiniteSets, TLC

VARIABLES
    in_splits,  \* normalization: the input collection of splits (a Vec<Split>)
    produced,   \* normalization: BTreeSet<Split> returned by normalize_splits
    again,      \* normalization: normalize_splits applied to `produced`
    held,       \* the set of splits held by SplitSet::new(in_splits)
    npc,        \* normalization: "input", "normalized", "renormalized" or "constructed"
    in_flow,    \* walking: the flow Flow::walks is called on
    in_stack,   \* walking: the slot stack handed to Flow::walks
    outcome,    \* walking: the Result returned by Flow::walks
    wpc,        \* walking: "ready" or "done"
    reordered,  \* normalization: in_splits permuted, with splits repeated
    reproduced, \* normalization: normalize_splits(reordered)
    gate_a,     \* gate algebra: self
    gate_b,     \* gate algebra: the other gate
    gate_r,     \* gate algebra: the gate returned by the last operation
    gpc,        \* gate algebra: "input", or the name of the last operation
    variant_produced, \* normalization: the set returned by another normalize_splits
    sm,         \* scope: the ScopeManager (cached_gates, breadcrumbs, depth)
    sm_before,  \* scope: the ScopeManager as it was before the last call
    sm_call,    \* scope: the last call, its gate argument and its Result
    lowers,     \* scope: number of lower calls that returned Ok
    raises,     \* scope: number of raise calls that returned Ok
    meta_in,    \* meta level: the tokens handed to process_meta_level
    meta_out,   \* meta level: the Result returned by process_meta_level
    mpc,        \* meta level: "ready" or "done"
    walk_items, \* walk items: the WalkItemSeq
    processed,  \* walk items: the Result returned by WalkItemSeq::process
    ppc         \* walk items: "ready" or "done"

vars == <<in_splits, produced, again, held, npc, in_flow, in_stack, outcome, wpc,
          reordered, reproduced, gate_a, gate_b, gate_r, gpc, variant_produced,
          sm, sm_before, sm_call, lowers, raises, meta_in, meta_out, mpc,
          walk_items, processed, ppc>>
normVars == <<in_splits, produced, again, held, npc>>
walkVars == <<in_flow, in_stack, outcome, wpc>>
orderVars == <<reordered, reproduced>>
gateVars == <<gate_a, gate_b, gate_r, gpc>>
scopeVars == <<sm, sm_before, sm_call, lowers, raises>>
metaVars == <<meta_in, meta_out, mpc>>
itemVars == <<walk_items, processed, ppc>>

----------------------------------------------------------------------------
(* Bounds *)

\* Slots are 0..MaxSlot; the universe stands for Slot = u8 (0..255).
MaxSlot == 1
\* Longest input collection handed to normalize_splits / SplitSet::new.
MaxSplits == 2
\* Longest slot stack handed to Flow::walks.
MaxStack == 3

Slots == 0..MaxSlot

----------------------------------------------------------------------------
(* parallel/gate.rs *)

Allow(s) == [type |-> "Allow", slots |-> s]
Block(s) == [type |-> "Block", slots |-> s]

Gates == {Allow(s) : s \in SUBSET Slots} \cup {Block(s) : s \in SUBSET Slots}

allow_all == Block({})
block_all == Allow({})

is_allow(g) == g.type = "Allow"
is_block(g) == g.type = "Block"

\* Variant: the kind of the gate is not looked at.
is_allow_all_kindless(g) == g.slots = {}
is_allow_all(g) == is_block(g) /\ g.slots = {}

\* Variant: the test of is_allow_all pasted into is_block_all.
is_block_all_as_allow_all(g) == is_block(g) /\ g.slots = {}
is_block_all(g) == is_allow(g) /\ g.slots = {}

\* Variant: the kind is not swapped.
invert_identity(g) == g
\* Variant: the slot set is complemented along with the kind.
invert_complement(g) ==
    [type |-> IF g.type = "Allow" THEN "Block" ELSE "Allow", slots |-> Slots \ g.slots]
invert(g) == [type |-> IF g.type = "Allow" THEN "Block" ELSE "Allow", slots |-> g.slots]

allows_slot(g, slot) == (slot \in g.slots) = is_allow(g)

\* Variant: Allow with Block keeps the blocked slots of the Block gate as they are.
union_allow_block_kept(self, gate) ==
    LET ls == self.slots
        rs == gate.slots
    IN  CASE is_allow(self) /\ is_allow(gate) -> Allow(ls \cup rs)
          [] is_allow(self) /\ is_block(gate) -> Block(rs)
          [] is_block(self) /\ is_allow(gate) -> Block(ls \ rs)
          [] is_block(self) /\ is_block(gate) -> Block(ls \cap rs)

\* Variant: two block gates keep the union of their slots.
union_block_block_union(self, gate) ==
    LET ls == self.slots
        rs == gate.slots
    IN  CASE is_allow(self) /\ is_allow(gate) -> Allow(ls \cup rs)
          [] is_allow(self) /\ is_block(gate) -> Block(rs \ ls)
          [] is_block(self) /\ is_allow(gate) -> Block(ls \ rs)
          [] is_block(self) /\ is_block(gate) -> Block(ls \cup rs)

union(self, gate) ==
    LET ls == self.slots
        rs == gate.slots
    IN  CASE is_allow(self) /\ is_allow(gate) -> Allow(ls \cup rs)
          [] is_allow(self) /\ is_block(gate) -> Block(rs \ ls)
          [] is_block(self) /\ is_allow(gate) -> Block(ls \ rs)
          [] is_block(self) /\ is_block(gate) -> Block(ls \cap rs)

\* Variant: the two mixed arms take the difference the wrong way round.
intersection_mixed_swapped(self, gate) ==
    LET ls == self.slots
        rs == gate.slots
    IN  CASE is_allow(self) /\ is_allow(gate) -> Allow(ls \cap rs)
          [] is_allow(self) /\ is_block(gate) -> Allow(rs \ ls)
          [] is_block(self) /\ is_allow(gate) -> Allow(ls \ rs)
          [] is_block(self) /\ is_block(gate) -> Block(ls \cup rs)

intersection(self, gate) ==
    LET ls == self.slots
        rs == gate.slots
    IN  CASE is_allow(self) /\ is_allow(gate) -> Allow(ls \cap rs)
          [] is_allow(self) /\ is_block(gate) -> Allow(ls \ rs)
          [] is_block(self) /\ is_allow(gate) -> Allow(rs \ ls)
          [] is_block(self) /\ is_block(gate) -> Block(ls \cup rs)

\* Variant: the second gate is not inverted.
difference_uninverted(self, gate) == intersection(self, gate)
difference(self, gate) == intersection(self, invert(gate))

\* Variant: the result is an allow gate whatever the two kinds.
sym_difference_always_allow(self, gate) ==
    Allow((self.slots \ gate.slots) \cup (gate.slots \ self.slots))

sym_difference(self, gate) ==
    LET sym_diff_slots == (self.slots \ gate.slots) \cup (gate.slots \ self.slots)
    IN  CASE is_allow(self) /\ is_allow(gate) -> Allow(sym_diff_slots)
          [] is_block(self) /\ is_block(gate) -> Allow(sym_diff_slots)
          [] is_allow(self) /\ is_block(gate) -> Block(sym_diff_slots)
          [] is_block(self) /\ is_allow(gate) -> Block(sym_diff_slots)

----------------------------------------------------------------------------
(* parallel/flow.rs: the data *)

TokenOrder == <<"apple", "banana", "cherry", "date">>

TokenItem(t) == [kind |-> "Token", token |-> t, splits |-> {}]
SplitItem(s) == [kind |-> "Split", token |-> "", splits |-> s]

Split(f, g) == [flow |-> f, gate |-> g]

EmptyFlow == <<>>


NoGate == [type |-> "None", slots |-> {}]

Min(s) == CHOOSE x \in s : \A y \in s : x <= y

CmpNat(a, b) == IF a < b THEN -1 ELSE IF a > b THEN 1 ELSE 0

TokenIndex(t) == CHOOSE i \in 1..Len(TokenOrder) : TokenOrder[i] = t

\* derive(Ord) on BTreeSet<Slot>: lexicographic over the ascending elements.
RECURSIVE CmpSlotSet(_, _)
CmpSlotSet(a, b) ==
    IF a = {} /\ b = {} THEN 0
    ELSE IF a = {} THEN -1
    ELSE IF b = {} THEN 1
    ELSE IF Min(a) # Min(b) THEN CmpNat(Min(a), Min(b))
    ELSE CmpSlotSet(a \ {Min(a)}, b \ {Min(b)})

\* derive(Ord) on Gate(GateType, SlotSet): Allow < Block, then the slot sets.
CmpGate(g, h) ==
    IF g.type # h.type THEN (IF is_allow(g) THEN -1 ELSE 1)
    ELSE CmpSlotSet(g.slots, h.slots)

RECURSIVE CmpFlowFrom(_, _, _)
RECURSIVE CmpSplitSeqFrom(_, _, _)
RECURSIVE SortSplits(_)

\* derive(Ord) on Split { flow, gate }.
CmpSplit(a, b) ==
    LET c == CmpFlowFrom(a.flow, b.flow, 1)
    IN  IF c # 0 THEN c ELSE CmpGate(a.gate, b.gate)

\* The iteration order of a BTreeSet<Split>.
SortSplits(s) ==
    IF s = {} THEN <<>>
    ELSE LET m == CHOOSE x \in s : \A y \in s : CmpSplit(x, y) <= 0
         IN  <<m>> \o SortSplits(s \ {m})

CmpSplitSeqFrom(a, b, i) ==
    IF i > Len(a) /\ i > Len(b) THEN 0
    ELSE IF i > Len(a) THEN -1
    ELSE IF i > Len(b) THEN 1
    ELSE LET c == CmpSplit(a[i], b[i])
         IN  IF c # 0 THEN c ELSE CmpSplitSeqFrom(a, b, i + 1)

\* derive(Ord) on FlowItem: Token(..) < Split(..).
CmpFlowItem(x, y) ==
    IF x.kind # y.kind THEN (IF x.kind = "Token" THEN -1 ELSE 1)
    ELSE IF x.kind = "Token" THEN CmpNat(TokenIndex(x.token), TokenIndex(y.token))
    ELSE CmpSplitSeqFrom(SortSplits(x.splits), SortSplits(y.splits), 1)

\* derive(Ord) on Flow(Vec<FlowItem>): lexicographic.
CmpFlowFrom(f, g, i) ==
    IF i > Len(f) /\ i > Len(g) THEN 0
    ELSE IF i > Len(f) THEN -1
    ELSE IF i > Len(g) THEN 1
    ELSE LET c == CmpFlowItem(f[i], g[i])
         IN  IF c # 0 THEN c ELSE CmpFlowFrom(f, g, i + 1)

----------------------------------------------------------------------------
(* parallel/flow.rs: SplitSet::new and SplitSet::normalize_splits *)

Range(s) == {s[i] : i \in 1..Len(s)}

\* SplitSet::new collects the splits into a BTreeSet.
SplitSet_new(ss) == Range(ss)

\* The iteration orders a HashMap with key set `keys` may present.
Orders(keys) ==
    {o \in [1..Cardinality(keys) -> keys] :
        \A i, j \in 1..Cardinality(keys) : i # j => o[i] # o[j]}

EmptyMap == [f \in {} |-> NoGate]

\* .and_modify(|present| *present = gate.union(&present)) of the grouping loop.
\* Variant: the gate already present for the flow is kept as it is.
merge_gate_keep_present(gate, present) == present
merge_gate(gate, present) == union(gate, present)

\* .and_modify(|present| *present = inv_union_gate.union(&present)) of the escape hatch.
\* Variant: the present gate of the empty flow is overwritten.
escape_gate_replace(inv_union_gate, present) == inv_union_gate
escape_gate(inv_union_gate, present) == union(inv_union_gate, present)

\* The for loop over the splits that do not have a block-all gate.
RECURSIVE group_splits(_, _, _)
group_splits(ss, i, flow_to_gate) ==
    IF i > Len(ss) THEN flow_to_gate
    ELSE IF is_block_all(ss[i].gate) THEN group_splits(ss, i + 1, flow_to_gate)
    ELSE LET f == ss[i].flow
             g == ss[i].gate
         IN  group_splits(ss, i + 1,
                [k \in DOMAIN flow_to_gate \cup {f} |->
                    IF k # f THEN flow_to_gate[k]
                    ELSE IF f \in DOMAIN flow_to_gate THEN merge_gate(g, flow_to_gate[f])
                    ELSE g])

\* flow_to_gate.values().fold(Gate::block_all(), |acc_g, g| acc_g.union(g)),
\* the values taken in the order `ord` of their keys.
RECURSIVE fold_union(_, _, _, _)
fold_union(flow_to_gate, ord, i, acc_g) ==
    IF i > Len(ord) THEN acc_g
    ELSE fold_union(flow_to_gate, ord, i + 1, union(acc_g, flow_to_gate[ord[i]]))

\* Store/modify the empty flow in the mapping.
with_escape(flow_to_gate, inv_union_gate) ==
    [k \in DOMAIN flow_to_gate \cup {EmptyFlow} |->
        IF k # EmptyFlow THEN flow_to_gate[k]
        ELSE IF EmptyFlow \in DOMAIN flow_to_gate
             THEN escape_gate(inv_union_gate, flow_to_gate[EmptyFlow])
             ELSE inv_union_gate]

to_splits(flow_to_gate) == {Split(f, flow_to_gate[f]) : f \in DOMAIN flow_to_gate}

\* Variant: the escape hatch is never stored.
normalize_splits_no_escape(ss, ord) == to_splits(group_splits(ss, 1, EmptyMap))

\* Variant: the splits are not grouped by flow; the escape hatch is added as one more split.
normalize_splits_ungrouped(ss, ord) ==
    LET kept == {sp \in Range(ss) : ~is_block_all(sp.gate)}
        flow_to_gate == group_splits(ss, 1, EmptyMap)
        union_gate == fold_union(flow_to_gate, ord, 1, block_all)
    IN  IF ~is_allow_all(union_gate)
        THEN kept \cup {Split(EmptyFlow, invert(union_gate))}
        ELSE kept

\* Variant: the commented-out recursion, normalizing the split sets nested in each sub-flow.
RECURSIVE normalize_splits_recursive(_, _)
normalize_splits_recursive(ss, ord) ==
    LET deep(f) ==
            [i \in 1..Len(f) |->
                IF f[i].kind = "Token" THEN f[i]
                ELSE LET inner == SortSplits(f[i].splits)
                     IN  SplitItem(normalize_splits_recursive(inner,
                            CHOOSE o \in Orders({sp.flow : sp \in f[i].splits}) : TRUE))]
        ss2 == [i \in 1..Len(ss) |-> Split(deep(ss[i].flow), ss[i].gate)]
        flow_to_gate == group_splits(ss2, 1, EmptyMap)
        union_gate == fold_union(flow_to_gate,
                        [i \in 1..Len(ord) |-> deep(ord[i])], 1, block_all)
    IN  IF ~is_allow_all(union_gate)
        THEN to_splits(with_escape(flow_to_gate, invert(union_gate)))
        ELSE to_splits(flow_to_gate)

normalize_splits(ss, ord) ==
    LET flow_to_gate == group_splits(ss, 1, EmptyMap)
        union_gate == fold_union(flow_to_gate, ord, 1, block_all)
    IN  IF ~is_allow_all(union_gate)
        THEN to_splits(with_escape(flow_to_gate, invert(union_gate)))
        ELSE to_splits(flow_to_gate)

\* The keys of flow_to_gate after the grouping loop.
\* parallel/cow_flow.rs and parallel/split.rs: the union is folded over the
\* input, the escape hatch is appended, block-all splits are dropped and the
\* rest is grouped by sub-flow.

RECURSIVE fold_gates(_, _, _)
fold_gates(ss, i, red) ==
    IF i > Len(ss) THEN red ELSE fold_gates(ss, i + 1, union(red, ss[i].gate))

with_coverage(split_seq) ==
    LET union_gate == fold_gates(split_seq, 1, block_all)
    IN  IF ~is_allow_all(union_gate)
        THEN Append(split_seq, Split(EmptyFlow, invert(union_gate)))
        ELSE split_seq

\* Variant: block-all splits stay in the sequence.
retain_everything(split_seq) == split_seq
retain(split_seq) == SelectSeq(split_seq, LAMBDA s : ~is_block_all(s.gate))

\* cow_flow.rs: .and_modify(|present| gate.union(&present)).or_insert(gate)
RECURSIVE cow_group(_, _, _)
cow_group(split_seq, i, flow_to_gate) ==
    IF i > Len(split_seq) THEN flow_to_gate
    ELSE LET f == split_seq[i].flow
             g == split_seq[i].gate
         IN  cow_group(split_seq, i + 1,
                [k \in DOMAIN flow_to_gate \cup {f} |->
                    IF k # f THEN flow_to_gate[k]
                    ELSE IF f \in DOMAIN flow_to_gate THEN union(g, flow_to_gate[f])
                    ELSE g])

cow_normalize_splits(ss) == to_splits(cow_group(retain(with_coverage(ss)), 1, EmptyMap))

\* split.rs: entry(subflow).or_insert(block_all), then entry.union(&active_gate)
RECURSIVE earlier_group(_, _, _)
earlier_group(split_seq, i, subflow_to_gate) ==
    IF i > Len(split_seq) THEN subflow_to_gate
    ELSE LET f == split_seq[i].flow
             g == split_seq[i].gate
         IN  earlier_group(split_seq, i + 1,
                [k \in DOMAIN subflow_to_gate \cup {f} |->
                    IF k # f THEN subflow_to_gate[k]
                    ELSE IF f \in DOMAIN subflow_to_gate THEN union(subflow_to_gate[f], g)
                    ELSE union(block_all, g)])

earlier_normalize_splits(ss) ==
    to_splits(earlier_group(retain(with_coverage(ss)), 1, EmptyMap))

grouped_flows(ss) == DOMAIN group_splits(ss, 1, EmptyMap)

----------------------------------------------------------------------------
(* parallel/flow.rs: walk resolution *)

FindOk(walks, stack) == [err |-> "None", walks |-> walks, stack |-> stack]
FindErr(e, stack) == [err |-> e, walks |-> <<>>, stack |-> stack]

\* For each existing result walk, append each of the split set walks.
cross(results, split_set_walks) ==
    LET n == Len(split_set_walks)
    IN  [k \in 1..(Len(results) * n) |->
            results[((k - 1) \div n) + 1] \o split_set_walks[((k - 1) % n) + 1]]

\* SplitSet::find_walks hands each split `&mut slot_stack.clone()`: what the
\* split pops from its clone (`inner`) is dropped, the caller keeps `before`.
\* Variant: the alternative works on the caller's stack, not on a clone.
stack_after_split_shared(before, inner) == inner
stack_after_split(before, inner) == before

\* What a split whose gate blocks the target slot returns.
\* Variant: no walk at all, as in Split::find_walks of split.rs.
blocked_walks_none == <<>>
blocked_walks == << <<>> >>

RECURSIVE Flow_find_walks_from(_, _, _, _, _)
RECURSIVE SplitSet_find_walks_from(_, _, _, _, _)

\* Variant: the sub-flow is walked whatever the gate says.
Split_find_walks_ungated(split, target_slot, slot_stack) ==
    Flow_find_walks_from(split.flow, 1, << <<>> >>, {}, slot_stack)

Split_find_walks(split, target_slot, slot_stack) ==
    IF ~allows_slot(split.gate, target_slot)
    THEN FindOk(blocked_walks, slot_stack)
    ELSE Flow_find_walks_from(split.flow, 1, << <<>> >>, {}, slot_stack)

\* The loop of SplitSet::find_walks over the splits in BTreeSet order.
SplitSet_find_walks_from(sorted, i, target_slot, slot_stack, results) ==
    IF i > Len(sorted) THEN FindOk(results, slot_stack)
    ELSE LET r == Split_find_walks(sorted[i], target_slot, slot_stack)
         IN  IF r.err # "None" THEN FindErr(r.err, stack_after_split(slot_stack, r.stack))
             ELSE SplitSet_find_walks_from(sorted, i + 1, target_slot,
                     stack_after_split(slot_stack, r.stack), results \o r.walks)

SplitSet_find_walks(split_set, target_slot, slot_stack) ==
    SplitSet_find_walks_from(SortSplits(split_set), 1, target_slot, slot_stack, <<>>)

\* Variant: slot_stack.pop().unwrap_or(0), an empty stack stands for slot 0.
Flow_find_walks_from_default(f, i, results, opt_target_slot, slot_stack) ==
    IF i > Len(f) THEN FindOk(results, slot_stack)
    ELSE IF f[i].kind = "Token"
    THEN Flow_find_walks_from(f, i + 1,
            [k \in 1..Len(results) |-> Append(results[k], f[i].token)],
            opt_target_slot, slot_stack)
    ELSE LET pops == opt_target_slot = {} /\ slot_stack # <<>>
             opt2 == IF pops THEN {slot_stack[Len(slot_stack)]}
                     ELSE IF opt_target_slot = {} THEN {0} ELSE opt_target_slot
             stack2 == IF pops THEN SubSeq(slot_stack, 1, Len(slot_stack) - 1) ELSE slot_stack
             target_slot == CHOOSE s \in opt2 : TRUE
             r == SplitSet_find_walks(f[i].splits, target_slot, stack2)
         IN  IF r.err # "None" THEN FindErr(r.err, r.stack)
             ELSE Flow_find_walks_from(f, i + 1, cross(results, r.walks), opt2, r.stack)

\* Variant: a slot is popped at every split item, not only at the first of the level.
Flow_find_walks_from_repop(f, i, results, opt_target_slot, slot_stack) ==
    IF i > Len(f) THEN FindOk(results, slot_stack)
    ELSE IF f[i].kind = "Token"
    THEN Flow_find_walks_from(f, i + 1,
            [k \in 1..Len(results) |-> Append(results[k], f[i].token)],
            opt_target_slot, slot_stack)
    ELSE LET pops == slot_stack # <<>>
             opt2 == IF pops THEN {slot_stack[Len(slot_stack)]} ELSE {}
             stack2 == IF pops THEN SubSeq(slot_stack, 1, Len(slot_stack) - 1) ELSE slot_stack
         IN  IF opt2 = {} THEN FindErr("Empty", stack2)
             ELSE LET target_slot == CHOOSE s \in opt2 : TRUE
                      r == SplitSet_find_walks(f[i].splits, target_slot, stack2)
                  IN  IF r.err # "None" THEN FindErr(r.err, r.stack)
                      ELSE Flow_find_walks_from(f, i + 1, cross(results, r.walks),
                              opt2, r.stack)

\* The loop of Flow::find_walks from item i on; opt_target_slot is {} (None) or {slot}.
Flow_find_walks_from(f, i, results, opt_target_slot, slot_stack) ==
    IF i > Len(f) THEN FindOk(results, slot_stack)
    ELSE IF f[i].kind = "Token"
    THEN Flow_find_walks_from(f, i + 1,
            [k \in 1..Len(results) |-> Append(results[k], f[i].token)],
            opt_target_slot, slot_stack)
    ELSE LET pops == opt_target_slot = {} /\ slot_stack # <<>>
             opt2 == IF pops THEN {slot_stack[Len(slot_stack)]} ELSE opt_target_slot
             stack2 == IF pops THEN SubSeq(slot_stack, 1, Len(slot_stack) - 1) ELSE slot_stack
         IN  IF opt2 = {} THEN FindErr("Empty", stack2)
             ELSE LET target_slot == CHOOSE s \in opt2 : TRUE
                      r == SplitSet_find_walks(f[i].splits, target_slot, stack2)
                  IN  IF r.err # "None" THEN FindErr(r.err, r.stack)
                      ELSE Flow_find_walks_from(f, i + 1, cross(results, r.walks),
                              opt2, r.stack)

Flow_find_walks(f, slot_stack) == Flow_find_walks_from(f, 1, << <<>> >>, {}, slot_stack)

NoOutcome == [tag |-> "None", walks |-> <<>>, leftover |-> <<>>]
Ok(walks) == [tag |-> "Ok", walks |-> walks, leftover |-> <<>>]
ErrEmpty == [tag |-> "Empty", walks |-> <<>>, leftover |-> <<>>]
ErrLeftover(stack) == [tag |-> "Leftover", walks |-> <<>>, leftover |-> stack]

\* Variant: the ensure!(slot_stack.is_empty(), ..) is missing.
Flow_walks_unchecked(f, stack) ==
    LET r == Flow_find_walks(f, stack)
    IN  IF r.err # "None" THEN ErrEmpty ELSE Ok(r.walks)

Flow_walks(f, stack) ==
    LET r == Flow_find_walks(f, stack)
    IN  IF r.err # "None" THEN ErrEmpty
        ELSE IF r.stack # <<>> THEN ErrLeftover(r.stack)
        ELSE Ok(r.walks)

----------------------------------------------------------------------------
(* Inputs *)

apple == TokenItem("apple")
banana == TokenItem("banana")
cherry == TokenItem("cherry")
date == TokenItem("date")

\* A sub-flow holding a nested split set that is not normalized.
NestedFlow == <<SplitItem({Split(<<apple>>, Allow({0}))}), apple>>

\* The sub-flows of the splits handed to normalize_splits.
NormFlows == {EmptyFlow, <<apple>>, <<apple, apple>>, NestedFlow}

SeqsUpTo(s, n) == UNION {[1..k -> s] : k \in 0..n}

NormInputs == SeqsUpTo({Split(f, g) : f \in NormFlows, g \in Gates}, MaxSplits)

\* Every result normalize_splits may return on `ss`, over the HashMap's orders.
Normalized(ss) == {normalize_splits(ss, o) : o \in Orders(grouped_flows(ss))}

\* Flows [apple, Split(S), cherry], S a normalized split set with token-only sub-flows.
TokenOnlyInputs == SeqsUpTo({Split(f, g) : f \in {EmptyFlow, <<banana>>}, g \in Gates}, MaxSplits)
NormalizedFlows ==
    {<<apple, SplitItem(s), cherry>> : s \in UNION {Normalized(ss) : ss \in TokenOnlyInputs}}

\* n nesting levels of splits, every gate allow-all.
RECURSIVE ChainFlow(_)
ChainFlow(n) ==
    IF n = 0 THEN <<apple>>
    ELSE <<apple, SplitItem({Split(ChainFlow(n - 1), allow_all)})>>

\* [apple, Split{(Flow[banana], allow(0))}, cherry]
SingleSplitFlow == <<apple, SplitItem({Split(<<banana>>, Allow({0}))}), cherry>>

\* [apple, Split{..}, cherry, Split{..}]: two split items at one level
TwoSplitFlow ==
    <<apple, SplitItem({Split(<<banana>>, Allow({0}))}), cherry,
      SplitItem({Split(<<date, apple>>, Allow({1}))})>>

\* The flows of tests::test_find_walks.
TestFlows ==
    { <<apple>>,
      <<apple, banana>>,
      <<apple, SplitItem({Split(<<banana>>, Allow({0}))}), cherry>>,
      <<apple, SplitItem({Split(<<banana>>, Allow({0}))}), cherry,
        SplitItem({Split(<<date, apple>>, Allow({1}))})>> }

\* Two levels, the inner one reached only through the alternative allowing slot 0.
GatedNestedFlow ==
    <<apple,
      SplitItem({Split(<<SplitItem({Split(<<banana>>, Allow({0}))}), cherry>>, Allow({0})),
                 Split(<<date>>, Block({0}))})>>

WalkFlows ==
    TestFlows \cup {ChainFlow(n) : n \in 0..MaxStack} \cup {GatedNestedFlow} \cup NormalizedFlows

WalkStacks == SeqsUpTo(Slots, MaxStack)

\* The parts of the state an operation family does not use.
OrderIdle == reordered = <<>> /\ reproduced = {}
GateIdle == gate_a = NoGate /\ gate_b = NoGate /\ gate_r = NoGate /\ gpc = "idle"
WalkIdle == in_flow = <<>> /\ in_stack = <<>> /\ outcome = NoOutcome /\ wpc = "idle"
NormIdle == in_splits = <<>> /\ produced = {} /\ again = {} /\ held = {} /\ npc = "idle"
VariantIdle == variant_produced = {}
ScopeIdle ==
    /\ sm = [cached_gates |-> <<>>, breadcrumbs |-> <<>>, depth |-> 0]
    /\ sm_before = sm
    /\ sm_call = [op |-> "idle", gate |-> NoGate, result |-> [tag |-> "None"]]
    /\ lowers = 0
    /\ raises = 0
MetaIdle == meta_in = <<>> /\ meta_out = [tag |-> "None"] /\ mpc = "idle"
ItemIdle == walk_items = <<>> /\ processed = [tag |-> "None"] /\ ppc = "idle"

----------------------------------------------------------------------------
(* Normalization: SplitSet::normalize_splits and SplitSet::new on an input *)

InitNorm ==
    /\ in_splits \in NormInputs
    /\ produced = {}
    /\ again = {}
    /\ held = {}
    /\ npc = "input"
    /\ in_flow = <<>>
    /\ in_stack = <<>>
    /\ outcome = NoOutcome
    /\ wpc = "idle"
    /\ OrderIdle
    /\ VariantIdle
    /\ ScopeIdle
    /\ MetaIdle
    /\ ItemIdle
    /\ GateIdle

\* SplitSet::normalize_splits(in_splits)
NormalizeSplits ==
    /\ npc = "input"
    /\ \E ord \in Orders(grouped_flows(in_splits)) :
          produced' = normalize_splits(in_splits, ord)
    /\ npc' = "normalized"
    /\ UNCHANGED <<in_splits, again, held, walkVars, orderVars, gateVars,
                 variant_produced, scopeVars, metaVars, itemVars>>

\* SplitSet::normalize_splits(produced), the set iterated in BTreeSet order
Renormalize ==
    /\ npc = "normalized"
    /\ \E ord \in Orders(grouped_flows(SortSplits(produced))) :
          again' = normalize_splits(SortSplits(produced), ord)
    /\ npc' = "renormalized"
    /\ UNCHANGED <<in_splits, produced, held, walkVars, orderVars, gateVars,
                 variant_produced, scopeVars, metaVars, itemVars>>

\* SplitSet::new(in_splits)
SplitSetNew ==
    /\ npc = "input"
    /\ held' = SplitSet_new(in_splits)
    /\ npc' = "constructed"
    /\ UNCHANGED <<in_splits, produced, again, walkVars, orderVars, gateVars,
                 variant_produced, scopeVars, metaVars, itemVars>>

NextNorm == NormalizeSplits \/ Renormalize \/ SplitSetNew

SpecNorm == InitNorm /\ [][NextNorm]_vars

----------------------------------------------------------------------------
(* Normalization of the same splits in another order, some of them repeated *)

OrderInputs ==
    SeqsUpTo({Split(f, g) : f \in {EmptyFlow, <<apple>>}, g \in Gates}, MaxSplits)

\* The sequences made of exactly the splits of ss, at most one element longer.
Reorderings(ss) == {o \in SeqsUpTo(Range(ss), Len(ss) + 1) : Range(o) = Range(ss)}

InitOrder ==
    /\ in_splits \in OrderInputs
    /\ produced = {}
    /\ again = {}
    /\ held = {}
    /\ npc = "input"
    /\ WalkIdle
    /\ OrderIdle
    /\ VariantIdle
    /\ ScopeIdle
    /\ MetaIdle
    /\ ItemIdle
    /\ GateIdle

\* SplitSet::normalize_splits(other), other a reordering of in_splits
NormalizeReordered ==
    /\ npc = "normalized"
    /\ \E other \in Reorderings(in_splits) :
          /\ reordered' = other
          /\ \E ord \in Orders(grouped_flows(other)) :
                reproduced' = normalize_splits(other, ord)
    /\ npc' = "reordered"
    /\ UNCHANGED <<in_splits, produced, again, held, walkVars, gateVars,
                 variant_produced, scopeVars, metaVars, itemVars>>

\* CowSplitSet::normalize_splits(in_splits)
NormalizeCow ==
    /\ npc = "normalized"
    /\ variant_produced' = cow_normalize_splits(in_splits)
    /\ npc' = "cow"
    /\ UNCHANGED <<in_splits, produced, again, held, walkVars, orderVars, gateVars,
                   scopeVars, metaVars, itemVars>>

\* SplitSet::normalize_splits(in_splits) of split.rs
NormalizeEarlier ==
    /\ npc = "normalized"
    /\ variant_produced' = earlier_normalize_splits(in_splits)
    /\ npc' = "earlier"
    /\ UNCHANGED <<in_splits, produced, again, held, walkVars, orderVars, gateVars,
                   scopeVars, metaVars, itemVars>>

NextOrder == NormalizeSplits \/ NormalizeReordered \/ NormalizeCow \/ NormalizeEarlier

SpecOrder == InitOrder /\ [][NextOrder]_vars

----------------------------------------------------------------------------
(* Walk resolution: Flow::walks on a flow and a slot stack *)

InitWalk ==
    /\ in_flow \in WalkFlows
    /\ in_stack \in WalkStacks
    /\ outcome = NoOutcome
    /\ wpc = "ready"
    /\ in_splits = <<>>
    /\ produced = {}
    /\ again = {}
    /\ held = {}
    /\ npc = "idle"
    /\ OrderIdle
    /\ VariantIdle
    /\ ScopeIdle
    /\ MetaIdle
    /\ ItemIdle
    /\ GateIdle

\* flow.walks(in_stack)
Walks ==
    /\ wpc = "ready"
    /\ outcome' = Flow_walks(in_flow, in_stack)
    /\ wpc' = "done"
    /\ UNCHANGED <<in_flow, in_stack, normVars, orderVars, gateVars,
                 variant_produced, scopeVars, metaVars, itemVars>>

NextWalk == Walks

SpecWalk == InitWalk /\ [][NextWalk]_vars

----------------------------------------------------------------------------
(* Properties *)

Normalised == npc \in {"normalized", "renormalized"}

HasSplit(f) == \E i \in 1..Len(f) : f[i].kind = "Split"

\* The alternatives of the split items of one flow level.
Alternatives(f) == UNION {f[i].splits : i \in {j \in 1..Len(f) : f[j].kind = "Split"}}

Max(s) == CHOOSE x \in s : \A y \in s : x >= y

RECURSIVE NestingLevels(_)
NestingLevels(f) ==
    IF ~HasSplit(f) THEN 0
    ELSE 1 + Max({0} \cup {NestingLevels(sp.flow) : sp \in Alternatives(f)})

\* Every gate of the flow, at every depth, allows every slot.
RECURSIVE EveryGateOpen(_)
EveryGateOpen(f) ==
    \A sp \in Alternatives(f) :
        /\ \A s \in Slots : allows_slot(sp.gate, s)
        /\ EveryGateOpen(sp.flow)

\* Every alternative of a level is exactly one level shallower than the level.
RECURSIVE UniformLevels(_)
UniformLevels(f) ==
    \A sp \in Alternatives(f) :
        /\ NestingLevels(sp.flow) = NestingLevels(f) - 1
        /\ UniformLevels(sp.flow)

\* C1: a flow with N nesting levels of splits (all alternatives allowed, all of
\* the same depth) walks to Ok exactly with N stack entries, fails with Empty
\* on N-1 entries and with Leftover on N+1 entries.
C1_StackDiscipline ==
    (wpc = "done" /\ EveryGateOpen(in_flow) /\ UniformLevels(in_flow)) =>
        LET n == NestingLevels(in_flow)
        IN  /\ Len(in_stack) = n => outcome.tag = "Ok"
            /\ Len(in_stack) = n - 1 => outcome.tag = "Empty"
            /\ Len(in_stack) = n + 1 => outcome.tag = "Leftover"

\* Gate::union folded from block-all over the gates of a sequence of splits.
RECURSIVE GatesUnion(_, _, _)
GatesUnion(sorted, i, acc) ==
    IF i > Len(sorted) THEN acc
    ELSE GatesUnion(sorted, i + 1, union(acc, sorted[i].gate))

\* C2: the gates of the result of normalize_splits fold under Gate::union,
\* starting from block-all, to the canonical allow-all gate Block({}), and
\* every slot is allowed by the gate of some split of the result.
C2_GatesUnionAllowAll ==
    Normalised =>
        /\ GatesUnion(SortSplits(produced), 1, Allow({})) = Block({})
        /\ \A s \in Slots : \E sp \in produced : allows_slot(sp.gate, s)

C2_Witness ==
    /\ npc = "normalized"
    /\ Len(in_splits) = 2
    /\ Cardinality(produced) = 3

\* C3: normalize_splits is idempotent: normalizing its result returns the
\* same set of splits.
C3_Idempotent == npc = "renormalized" => again = produced

C3_Witness ==
    /\ npc = "renormalized"
    /\ Cardinality(produced) >= 2
    /\ produced # Range(in_splits)
    /\ \E sp \in produced : sp.flow = EmptyFlow /\ sp.gate.slots # {}

\* C4: the set of splits held by SplitSet::new(X) is normalize_splits(X).
C4_NewNormalizes == npc = "constructed" => held \in Normalized(in_splits)

TokensOf(f) == [i \in 1..Len(f) |-> f[i].token]

\* The splits of a set whose gate allows s, in the order of the set.
RECURSIVE Live(_, _, _)
Live(sorted, i, s) ==
    IF i > Len(sorted) THEN <<>>
    ELSE (IF allows_slot(sorted[i].gate, s) THEN <<sorted[i]>> ELSE <<>>)
            \o Live(sorted, i + 1, s)

\* C5: walking [apple, Split(S), cherry], S normalized with token-only
\* sub-flows, on a one-entry stack [s] returns exactly one walk per split of S
\* whose gate allows s: apple, the split's tokens, cherry; blocked splits add
\* no walk.
C5_OnlyLiveBranchesWalk ==
    (wpc = "done" /\ in_flow \in NormalizedFlows /\ Len(in_stack) = 1) =>
        LET live == Live(SortSplits(in_flow[2].splits), 1, in_stack[1])
        IN  outcome = Ok([k \in 1..Len(live) |->
                            <<"apple">> \o TokensOf(live[k].flow) \o <<"cherry">>])

\* C6 as claimed: no split of the result has a gate that blocks every slot,
\* in either representation.
C6_NoDeadGate ==
    Normalised => \A sp \in produced : \E s \in Slots : allows_slot(sp.gate, s)

\* C6: no split of the result of normalize_splits has the canonical block-all
\* gate Allow({}).
C6_NoCanonicalBlockAll ==
    Normalised => \A sp \in produced : sp.gate # [type |-> "Allow", slots |-> {}]

C6_Witness ==
    /\ npc = "normalized"
    /\ \E i \in 1..Len(in_splits) :
          /\ in_splits[i].gate = [type |-> "Allow", slots |-> {}]
          /\ in_splits[i].flow \notin {sp.flow : sp \in produced}

\* C7 as claimed: every slot is allowed by exactly one split of the result.
C7_Partition ==
    Normalised =>
        \A s \in Slots : Cardinality({sp \in produced : allows_slot(sp.gate, s)}) = 1

\* C7: every slot is allowed by at least one split of the result of
\* normalize_splits (the gates cover the slot space; they may overlap).
C7_Cover ==
    Normalised => \A s \in Slots : \E sp \in produced : allows_slot(sp.gate, s)

C7_Witness ==
    /\ npc = "normalized"
    /\ \E s \in Slots : Cardinality({sp \in produced : allows_slot(sp.gate, s)}) = 2
    /\ \E sp \in produced : sp.flow = EmptyFlow /\ sp \notin Range(in_splits)

\* C8: no two splits of the result of normalize_splits have the same sub-flow:
\* the input splits sharing a sub-flow (those not dropped as block-all) are
\* replaced by exactly one split with that sub-flow.
C8_DistinctFlows ==
    Normalised =>
        /\ \A a, b \in produced : a.flow = b.flow => a = b
        /\ \A i \in 1..Len(in_splits) :
              in_splits[i].gate # [type |-> "Allow", slots |-> {}] =>
                  Cardinality({sp \in produced : sp.flow = in_splits[i].flow}) = 1

C8_Witness ==
    /\ npc = "normalized"
    /\ \E i, j \in 1..Len(in_splits) :
          /\ in_splits[i].flow = in_splits[j].flow
          /\ in_splits[i].gate # in_splits[j].gate
          /\ in_splits[i].gate.slots # {}
          /\ in_splits[j].gate.slots # {}
          /\ Cardinality({sp \in produced : sp.flow = in_splits[i].flow}) = 1

\* C9: normalize_splits of the empty collection is the single split
\* (empty flow, Block({})).
C9_EmptyInput ==
    (Normalised /\ in_splits = <<>>) =>
        produced = {[flow |-> <<>>, gate |-> [type |-> "Block", slots |-> {}]]}

C9_Witness == npc = "normalized" /\ in_splits = <<>>

\* C10: every sub-flow of the result of normalize_splits is the sub-flow of an
\* input split, nested split sets included, or the empty flow.
C10_SubflowsUntouched ==
    Normalised =>
        \A sp \in produced :
            \/ sp.flow = EmptyFlow
            \/ \E i \in 1..Len(in_splits) : in_splits[i].flow = sp.flow

C10_Witness ==
    /\ npc = "normalized"
    /\ \E sp \in produced :
          /\ HasSplit(sp.flow)
          /\ \E i \in 1..Len(sp.flow) :
                sp.flow[i].kind = "Split" /\ sp.flow[i].splits = {Split(<<apple>>, Allow({0}))}

\* C11: normalize_splits returns the same set of splits for every permutation
\* of its input and for the input with some of its splits repeated.
C11_OrderIndependent == npc = "reordered" => reproduced = produced

C11_Witness ==
    /\ npc = "reordered"
    /\ Len(reordered) > Len(in_splits)
    /\ Len(in_splits) = 2
    /\ reordered[1] = in_splits[2]
    /\ in_splits[1].flow = in_splits[2].flow
    /\ in_splits[1].gate.type # in_splits[2].gate.type
    /\ in_splits[1].gate.slots # {}
    /\ in_splits[2].gate.slots # {}

Front(s) == SubSeq(s, 1, Len(s) - 1)

----------------------------------------------------------------------------
\* The Gate operations on every pair of gates over Slots.

InitGate ==
    /\ gate_a \in Gates
    /\ gate_b \in Gates
    /\ gate_r = NoGate
    /\ gpc = "input"
    /\ NormIdle
    /\ WalkIdle
    /\ OrderIdle
    /\ VariantIdle
    /\ ScopeIdle
    /\ MetaIdle
    /\ ItemIdle

\* a.union(&b)
Union ==
    /\ gpc = "input"
    /\ gate_r' = union(gate_a, gate_b)
    /\ gpc' = "union"
    /\ UNCHANGED <<gate_a, gate_b, normVars, walkVars, orderVars,
                 variant_produced, scopeVars, metaVars, itemVars>>

\* a.intersection(&b)
Intersection ==
    /\ gpc = "input"
    /\ gate_r' = intersection(gate_a, gate_b)
    /\ gpc' = "intersection"
    /\ UNCHANGED <<gate_a, gate_b, normVars, walkVars, orderVars,
                 variant_produced, scopeVars, metaVars, itemVars>>

\* a.difference(&b)
Difference ==
    /\ gpc = "input"
    /\ gate_r' = difference(gate_a, gate_b)
    /\ gpc' = "difference"
    /\ UNCHANGED <<gate_a, gate_b, normVars, walkVars, orderVars,
                 variant_produced, scopeVars, metaVars, itemVars>>

\* a.sym_difference(&b)
SymDifference ==
    /\ gpc = "input"
    /\ gate_r' = sym_difference(gate_a, gate_b)
    /\ gpc' = "sym_difference"
    /\ UNCHANGED <<gate_a, gate_b, normVars, walkVars, orderVars,
                 variant_produced, scopeVars, metaVars, itemVars>>

\* a.invert()
Invert ==
    /\ gpc = "input"
    /\ gate_r' = invert(gate_a)
    /\ gpc' = "invert"
    /\ UNCHANGED <<gate_a, gate_b, normVars, walkVars, orderVars,
                 variant_produced, scopeVars, metaVars, itemVars>>

\* a.invert().invert()
InvertAgain ==
    /\ gpc = "invert"
    /\ gate_r' = invert(gate_r)
    /\ gpc' = "inverted_twice"
    /\ UNCHANGED <<gate_a, gate_b, normVars, walkVars, orderVars,
                 variant_produced, scopeVars, metaVars, itemVars>>

NextGate == Union \/ Intersection \/ Difference \/ SymDifference \/ Invert \/ InvertAgain

SpecGate == InitGate /\ [][NextGate]_vars

\* C12: find_walks fails with Empty, with no walks, when it reaches a split
\* item with no slot popped and an empty stack, at the top level or in an
\* allowed alternative handed an empty stack; a flow with no split item never
\* fails with Empty.
C12_EmptyOnSplitWithoutSlot ==
    wpc = "done" =>
        /\ (HasSplit(in_flow) /\ in_stack = <<>>) => outcome = ErrEmpty
        /\ (Len(in_stack) = 1 /\ \E sp \in Alternatives(in_flow) :
                allows_slot(sp.gate, in_stack[1]) /\ HasSplit(sp.flow))
            => outcome = ErrEmpty
        /\ ~HasSplit(in_flow) =>
                /\ outcome.tag # "Empty"
                /\ Flow_find_walks(in_flow, in_stack).err = "None"

C12_Witness ==
    /\ wpc = "done"
    /\ in_flow = GatedNestedFlow
    /\ in_stack = <<0>>
    /\ outcome.tag = "Empty"

\* C13: walks fails with Leftover exactly when find_walks succeeded and
\* entries remain in the stack, carrying those entries in stack order; a flow
\* with no split item and a non-empty stack fails with Leftover carrying the
\* whole stack; Ok is returned only if the stack ends empty.
C13_LeftoverCarriesRest ==
    wpc = "done" =>
        LET rest == IF HasSplit(in_flow) /\ in_stack # <<>> THEN Front(in_stack) ELSE in_stack
            found == Flow_find_walks(in_flow, in_stack).err = "None"
        IN  /\ outcome.tag = "Leftover" <=> (found /\ rest # <<>>)
            /\ outcome.tag = "Leftover" => outcome.leftover = rest
            /\ (~HasSplit(in_flow) /\ in_stack # <<>>) => outcome = ErrLeftover(in_stack)
            /\ outcome.tag = "Ok" => (found /\ rest = <<>>)

C13_Witness ==
    /\ wpc = "done"
    /\ HasSplit(in_flow)
    /\ Len(in_stack) = 3
    /\ in_stack[1] # in_stack[2]
    /\ outcome = ErrLeftover(<<in_stack[1], in_stack[2]>>)

\* The walks each alternative of a split set adds at slot s when its sub-flow
\* holds tokens only.
RECURSIVE AlternativeWalks(_, _, _)
AlternativeWalks(sorted, i, s) ==
    IF i > Len(sorted) THEN <<>>
    ELSE <<IF allows_slot(sorted[i].gate, s) THEN TokensOf(sorted[i].flow) ELSE <<>>>>
            \o AlternativeWalks(sorted, i + 1, s)

\* The walks of the first n items of a one-level flow, every split item taken at slot s.
RECURSIVE OneLevelWalks(_, _, _)
OneLevelWalks(f, n, s) ==
    IF n = 0 THEN << <<>> >>
    ELSE LET before == OneLevelWalks(f, n - 1, s)
             added == IF f[n].kind = "Token" THEN << <<f[n].token>> >>
                      ELSE AlternativeWalks(SortSplits(f[n].splits), 1, s)
         IN  [k \in 1..(Len(before) * Len(added)) |->
                before[((k - 1) \div Len(added)) + 1] \o added[((k - 1) % Len(added)) + 1]]

\* C14: one find_walks pops at most one slot, the last of the stack, at the
\* first split item, and uses it for every split item of the level; a flow
\* with no split item pops nothing.
C14_OnePopPerLevel ==
    wpc = "done" =>
        LET r == Flow_find_walks(in_flow, in_stack)
        IN  /\ ~HasSplit(in_flow) => r.stack = in_stack
            /\ (HasSplit(in_flow) /\ in_stack # <<>>) => r.stack = Front(in_stack)
            /\ (HasSplit(in_flow) /\ in_stack = <<>>) => r.stack = <<>>
            /\ (NestingLevels(in_flow) = 1 /\ Len(in_stack) = 1) =>
                    outcome = Ok(OneLevelWalks(in_flow, Len(in_flow), in_stack[1]))

C14_Witness ==
    /\ wpc = "done"
    /\ in_flow = TwoSplitFlow
    /\ in_stack = <<1>>
    /\ outcome = Ok(<< <<"apple", "cherry", "date", "apple">> >>)

\* C15: a split whose gate blocks the target slot returns Ok([[]]), never an
\* error; [apple, Split{(Flow[banana], allow(0))}, cherry] walks to
\* [[apple, banana, cherry]] on [0] and to [[apple, cherry]] on [1].
C15_BlockedSplitOneEmptyWalk ==
    wpc = "done" =>
        /\ \A sp \in Alternatives(in_flow) : \A s \in Slots :
              ~allows_slot(sp.gate, s) =>
                  Split_find_walks(sp, s, in_stack) =
                      [err |-> "None", walks |-> << <<>> >>, stack |-> in_stack]
        /\ (in_flow = SingleSplitFlow /\ in_stack = <<0>>) =>
              outcome = Ok(<< <<"apple", "banana", "cherry">> >>)
        /\ (in_flow = SingleSplitFlow /\ in_stack = <<1>>) =>
              outcome = Ok(<< <<"apple", "cherry">> >>)

C15_Witness ==
    /\ wpc = "done"
    /\ in_flow = SingleSplitFlow
    /\ in_stack = <<1>>
    /\ outcome.tag = "Ok"

\* C16: a.union(b) allows a slot exactly when a or b allows it.
C16_UnionIsOr ==
    gpc = "union" =>
        \A s \in Slots :
            allows_slot(gate_r, s) = (allows_slot(gate_a, s) \/ allows_slot(gate_b, s))

C16_Witness ==
    /\ gpc = "union"
    /\ is_block(gate_a) /\ is_block(gate_b)
    /\ gate_a.slots # gate_b.slots
    /\ gate_a.slots \cap gate_b.slots # {}
    /\ gate_r = Block(gate_a.slots \cap gate_b.slots)

\* C17: a.intersection(b) allows a slot exactly when a and b both allow it.
C17_IntersectionIsAnd ==
    gpc = "intersection" =>
        \A s \in Slots :
            allows_slot(gate_r, s) = (allows_slot(gate_a, s) /\ allows_slot(gate_b, s))

C17_Witness ==
    /\ gpc = "intersection"
    /\ is_allow(gate_a) /\ is_block(gate_b)
    /\ gate_a.slots \ gate_b.slots # {}
    /\ gate_a.slots \cap gate_b.slots # {}
    /\ gate_r = Allow(gate_a.slots \ gate_b.slots)

\* C18: a.difference(b) allows a slot exactly when a allows it and b does not.
C18_DifferenceIsAndNot ==
    gpc = "difference" =>
        \A s \in Slots :
            allows_slot(gate_r, s) = (allows_slot(gate_a, s) /\ ~allows_slot(gate_b, s))

C18_Witness ==
    /\ gpc = "difference"
    /\ is_block(gate_a) /\ is_allow(gate_b)
    /\ gate_a.slots # {} /\ gate_b.slots # {}
    /\ gate_a.slots # gate_b.slots
    /\ gate_r = Block(gate_a.slots \cup gate_b.slots)

\* C19: a.sym_difference(b) allows a slot exactly when exactly one of a and b
\* allows it.
C19_SymDifferenceIsXor ==
    gpc = "sym_difference" =>
        \A s \in Slots :
            allows_slot(gate_r, s) = (allows_slot(gate_a, s) # allows_slot(gate_b, s))

C19_Witness ==
    /\ gpc = "sym_difference"
    /\ is_allow(gate_a) /\ is_block(gate_b)
    /\ gate_a.slots # gate_b.slots
    /\ gate_a.slots # {} /\ gate_b.slots # {}
    /\ is_block(gate_r) /\ gate_r.slots # {}

\* C20: g.invert() has the opposite kind and the same slot set as g, and
\* g.invert().invert() equals g.
C20_InvertInvolution ==
    /\ gpc = "invert" =>
          /\ gate_r.slots = gate_a.slots
          /\ is_allow(gate_r) = is_block(gate_a)
          /\ is_block(gate_r) = is_allow(gate_a)
    /\ gpc = "inverted_twice" => gate_r = gate_a

C20_Witness ==
    /\ gpc = "inverted_twice"
    /\ is_allow(gate_a)
    /\ gate_a.slots = {1}
    /\ gate_r = gate_a

----------------------------------------------------------------------------
(* variant/scope.rs: ScopeManager.  variant::gate::Gate is the enum         *)
(* Allow(SlotSet) | Block(SlotSet) with the operations of parallel/gate.rs, *)
(* so the gate operators above stand for both.                              *)

\* Most lower calls that return Ok in one run.
MaxLowers == 3

ScopeManager_new == [cached_gates |-> <<>>, breadcrumbs |-> <<>>, depth |-> 0]

OkUnit == [tag |-> "Ok"]
NoIntersection(expected, provided) ==
    [tag |-> "NoIntersection", expected |-> expected, provided |-> provided]
CannotRaise == [tag |-> "CannotRaise"]
StillInScope(d) == [tag |-> "StillInScope", depth |-> d]
OkBreadcrumbs(b) == [tag |-> "Ok", breadcrumbs |-> b]

\* Vec::resize, Vec::truncate, Vec::pop (the vector left behind)
resize(v, new_len, value) ==
    IF new_len >= Len(v) THEN v \o [k \in 1..(new_len - Len(v)) |-> value]
    ELSE SubSeq(v, 1, new_len)
truncate(v, len) == IF len >= Len(v) THEN v ELSE SubSeq(v, 1, len)
pop(v) == IF v = <<>> THEN v ELSE SubSeq(v, 1, Len(v) - 1)

\* ScopeManager::lower; vectors are 1-based here, so index d of the code is d + 1.
lower(self, provided_gate) ==
    LET curr_depth == self.depth
        next_depth == curr_depth + 1
        cached == IF Len(self.cached_gates) <= next_depth
                  THEN resize(self.cached_gates, next_depth, allow_all)
                  ELSE self.cached_gates
        crumbs == IF Len(self.breadcrumbs) <= next_depth
                  THEN resize(self.breadcrumbs, next_depth, <<allow_all>>)
                  ELSE self.breadcrumbs
        expected_gate == cached[curr_depth + 1]
        intersection_gate == intersection(expected_gate, provided_gate)
    IN  IF is_block_all(intersection_gate)
        THEN [self |-> [cached_gates |-> cached, breadcrumbs |-> crumbs,
                        depth |-> curr_depth],
              result |-> NoIntersection(expected_gate, provided_gate)]
        ELSE [self |-> [cached_gates |->
                            [cached EXCEPT ![curr_depth + 1] = intersection_gate],
                        breadcrumbs |->
                            [crumbs EXCEPT ![curr_depth + 1] =
                                Append(pop(@), intersection_gate)],
                        depth |-> next_depth],
              result |-> OkUnit]

\* Variant: the cache is cut at the current depth, dropping the entry of that depth too.
raise_truncate_at_depth(self) ==
    IF ~(self.depth > 0) THEN [self |-> self, result |-> CannotRaise]
    ELSE [self |-> [self EXCEPT !.cached_gates = truncate(@, self.depth),
                                !.depth = self.depth - 1],
          result |-> OkUnit]

\* ScopeManager::raise
raise(self) ==
    IF ~(self.depth > 0) THEN [self |-> self, result |-> CannotRaise]
    ELSE LET curr_depth == self.depth
             next_depth == curr_depth - 1
         IN  [self |-> [self EXCEPT !.cached_gates = truncate(@, curr_depth + 1),
                                    !.depth = next_depth],
              result |-> OkUnit]

\* Variant: the breadcrumbs are handed out whatever the depth.
close_unchecked(self) == OkBreadcrumbs(self.breadcrumbs)

\* ScopeManager::close
close(self) ==
    IF ~(self.depth = 0) THEN StillInScope(self.depth)
    ELSE OkBreadcrumbs(self.breadcrumbs)

InitScope ==
    /\ sm = ScopeManager_new
    /\ sm_before = ScopeManager_new
    /\ sm_call = [op |-> "new", gate |-> NoGate, result |-> [tag |-> "None"]]
    /\ lowers = 0
    /\ raises = 0
    /\ NormIdle
    /\ WalkIdle
    /\ OrderIdle
    /\ GateIdle
    /\ VariantIdle
    /\ MetaIdle
    /\ ItemIdle

\* scope_manager.lower(&provided_gate)
Lower ==
    /\ sm_call.op \in {"new", "lower", "raise"}
    /\ lowers < MaxLowers
    /\ \E provided_gate \in Gates :
          LET r == lower(sm, provided_gate)
          IN  /\ sm' = r.self
              /\ sm_call' = [op |-> "lower", gate |-> provided_gate, result |-> r.result]
              /\ lowers' = IF r.result.tag = "Ok" THEN lowers + 1 ELSE lowers
    /\ sm_before' = sm
    /\ UNCHANGED <<raises, normVars, walkVars, orderVars, gateVars, variant_produced,
                   metaVars, itemVars>>

\* scope_manager.raise()
Raise ==
    /\ sm_call.op \in {"new", "lower", "raise"}
    /\ LET r == raise(sm)
       IN  /\ sm' = r.self
           /\ sm_call' = [op |-> "raise", gate |-> NoGate, result |-> r.result]
           /\ raises' = IF r.result.tag = "Ok" THEN raises + 1 ELSE raises
    /\ sm_before' = sm
    /\ UNCHANGED <<lowers, normVars, walkVars, orderVars, gateVars, variant_produced,
                   metaVars, itemVars>>

\* scope_manager.close(), which consumes the manager
Close ==
    /\ sm_call.op \in {"new", "lower", "raise"}
    /\ sm_call' = [op |-> "close", gate |-> NoGate, result |-> close(sm)]
    /\ sm_before' = sm
    /\ UNCHANGED <<sm, lowers, raises, normVars, walkVars, orderVars, gateVars,
                   variant_produced, metaVars, itemVars>>

NextScope == Lower \/ Raise \/ Close

SpecScope == InitScope /\ [][NextScope]_vars

\* C21: a lower that returns NoIntersection leaves depth, cached_gates and
\* breadcrumbs as they were before the call.
C21_FailedLowerChangesNothing ==
    (sm_call.op = "lower" /\ sm_call.result.tag = "NoIntersection") => sm = sm_before

\* C22: a successful lower at depth d appends its intersection gate to
\* breadcrumbs[d] after the gates already recorded there; only the allow-all
\* placeholder of a newly allocated bucket is dropped.
C22_BreadcrumbsAccumulate ==
    (sm_call.op = "lower" /\ sm_call.result.tag = "Ok") =>
        LET d == sm_before.depth + 1
            old == IF d <= Len(sm_before.breadcrumbs)
                   THEN sm_before.breadcrumbs[d] ELSE <<allow_all>>
            kept == IF old = <<allow_all>> THEN <<>> ELSE old
        IN  sm.breadcrumbs[d] = Append(kept, sm.cached_gates[d])

\* C23: raise at depth 0 returns CannotRaise and changes nothing; at depth
\* j > 0 it returns Ok, sets depth to j - 1, deletes the cached gates at
\* indices k > j, keeps those at indices <= j and leaves breadcrumbs alone.
C23_RaiseTruncatesCache ==
    sm_call.op = "raise" =>
        LET j == sm_before.depth
        IN  IF j = 0
            THEN /\ sm_call.result = CannotRaise
                 /\ sm = sm_before
            ELSE /\ sm_call.result = OkUnit
                 /\ sm.depth = j - 1
                 /\ Len(sm.cached_gates) = IF Len(sm_before.cached_gates) > j + 1
                                           THEN j + 1 ELSE Len(sm_before.cached_gates)
                 /\ \A k \in 1..Len(sm.cached_gates) :
                        sm.cached_gates[k] = sm_before.cached_gates[k]
                 /\ sm.breadcrumbs = sm_before.breadcrumbs

C23_Witness ==
    /\ sm_call.op = "raise"
    /\ sm_call.result = OkUnit
    /\ Len(sm.cached_gates) < Len(sm_before.cached_gates)
    /\ sm.depth = 0

\* C28: depth is the number of successful lower calls minus the number of
\* successful raise calls, cached_gates and breadcrumbs are at least depth
\* long, and close returns Ok with the breadcrumbs exactly at depth 0,
\* StillInScope with the depth otherwise.
C28_DepthCountsScopes ==
    /\ sm.depth = lowers - raises
    /\ Len(sm.cached_gates) >= sm.depth
    /\ Len(sm.breadcrumbs) >= sm.depth
    /\ sm_call.op = "close" =>
          /\ sm = sm_before
          /\ sm.depth = 0 => sm_call.result = [tag |-> "Ok", breadcrumbs |-> sm.breadcrumbs]
          /\ sm.depth # 0 => sm_call.result = [tag |-> "StillInScope", depth |-> sm.depth]

C28_Witness ==
    /\ sm_call.op = "close"
    /\ sm_call.result.tag = "StillInScope"
    /\ sm_call.result.depth = 1
    /\ lowers = 3
    /\ raises = 2

----------------------------------------------------------------------------
(* processor/mod.rs: ProcessItem::process_meta_level *)

\* Longest token sequence handed to process_meta_level.
MaxItems == 3

\* ProcessItem: kind is the enum variant; mods and anns are empty for the
\* variants that have no such fields.
ProcessItem(kind, name, mods, anns) ==
    [kind |-> kind, name |-> name, mods |-> mods, anns |-> anns]
Ingredient(name, mods, anns) == ProcessItem("Ingredient", name, mods, anns)
Verb(name, mods, anns) == ProcessItem("Verb", name, mods, anns)
Place == ProcessItem("Place", "", <<>>, <<>>)
Modifier(name) == ProcessItem("Modifier", name, <<>>, <<>>)
Annotation(name) == ProcessItem("Annotation", name, <<>>, <<>>)

\* The variants the first seven arms of apply_modifier / apply_annotation match.
HasModsAndAnns ==
    {"Ingredient", "Tool", "Container", "Appliance", "Verb", "Combine", "Transfer"}

MetaOk(items) == [tag |-> "Ok", items |-> items]
ProcessEmpty == [tag |-> "Empty"]
NotModifiable(target) == [tag |-> "NotModifiable", target |-> target]
NotAnnotatable(target) == [tag |-> "NotAnnotatable", target |-> target]

\* apply_modifier / apply_annotation: the target after the call and the Result.
apply_modifier(self, modifier) ==
    IF self.kind \in HasModsAndAnns
    THEN [self |-> [self EXCEPT !.mods = Append(@, modifier)], result |-> OkUnit]
    ELSE [self |-> self, result |-> NotModifiable(self)]

apply_annotation(self, annotation) ==
    IF self.kind \in HasModsAndAnns
    THEN [self |-> [self EXCEPT !.anns = Append(@, annotation)], result |-> OkUnit]
    ELSE [self |-> self, result |-> NotAnnotatable(self)]

\* The loop of process_meta_level from token i on.  The popped target is a
\* local of the if-let body: it is modified and then dropped, never pushed back.
RECURSIVE process_meta_level_from(_, _, _)
process_meta_level_from(tokens, i, stack) ==
    IF i > Len(tokens) THEN MetaOk(stack)
    ELSE LET token == tokens[i]
         IN  IF token.kind = "Modifier"
             THEN IF stack = <<>> THEN ProcessEmpty
                  ELSE LET target == apply_modifier(stack[Len(stack)], token.name)
                       IN  IF target.result # OkUnit THEN target.result
                           ELSE process_meta_level_from(tokens, i + 1, pop(stack))
             ELSE IF token.kind = "Annotation"
             THEN IF stack = <<>> THEN ProcessEmpty
                  ELSE LET target == apply_annotation(stack[Len(stack)], token.name)
                       IN  IF target.result # OkUnit THEN target.result
                           ELSE process_meta_level_from(tokens, i + 1, pop(stack))
             ELSE process_meta_level_from(tokens, i + 1, Append(stack, token))

process_meta_level(tokens) == process_meta_level_from(tokens, 1, <<>>)

MetaTokens ==
    {Ingredient("flour", <<>>, <<>>), Verb("stir", <<"gently">>, <<>>), Place,
     Modifier("sifted"), Annotation("organic")}

InitMeta ==
    /\ meta_in \in SeqsUpTo(MetaTokens, MaxItems)
    /\ meta_out = [tag |-> "None"]
    /\ mpc = "ready"
    /\ NormIdle
    /\ WalkIdle
    /\ OrderIdle
    /\ GateIdle
    /\ VariantIdle
    /\ ScopeIdle
    /\ ItemIdle

\* ProcessItem::process_meta_level(meta_in)
ProcessMetaLevel ==
    /\ mpc = "ready"
    /\ meta_out' = process_meta_level(meta_in)
    /\ mpc' = "done"
    /\ UNCHANGED <<meta_in, normVars, walkVars, orderVars, gateVars, variant_produced,
                   scopeVars, itemVars>>

NextMeta == ProcessMetaLevel

SpecMeta == InitMeta /\ [][NextMeta]_vars

IsMeta(item) == item.kind \in {"Modifier", "Annotation"}

\* The tokens with every Modifier and Annotation folded onto the item before it.
RECURSIVE Folded(_, _, _)
Folded(tokens, i, acc) ==
    IF i > Len(tokens) THEN acc
    ELSE IF IsMeta(tokens[i]) /\ acc # <<>>
    THEN Folded(tokens, i + 1,
            [acc EXCEPT ![Len(acc)] =
                IF tokens[i].kind = "Modifier"
                THEN [@ EXCEPT !.mods = Append(@, tokens[i].name)]
                ELSE [@ EXCEPT !.anns = Append(@, tokens[i].name)]])
    ELSE IF IsMeta(tokens[i]) THEN Folded(tokens, i + 1, acc)
    ELSE Folded(tokens, i + 1, Append(acc, tokens[i]))

\* C24: on success process_meta_level returns every non-meta input item, in
\* input order, each with the modifiers and annotations that follow it
\* appended to its mods and anns.
C24_MetaFoldedAndKept ==
    (mpc = "done" /\ meta_out.tag = "Ok") => meta_out.items = Folded(meta_in, 1, <<>>)

----------------------------------------------------------------------------
\* Some split of the collection ss has sub-flow f and a gate allowing slot s.
LiveIn(ss, f, s) == \E sp \in ss : sp.flow = f /\ allows_slot(sp.gate, s)

\* C25: normalize_splits keeps, slot by slot, which sub-flows are live: a
\* non-empty sub-flow is allowed at s by the result exactly when some input
\* split with that sub-flow allows s, and the empty sub-flow is allowed at s by
\* the result exactly when an input split with the empty sub-flow allows s or
\* no input split allows s.
C25_LivenessPreserved ==
    npc = "normalized" =>
        LET given == Range(in_splits)
            flows == {sp.flow : sp \in given \cup produced}
        IN  \A s \in Slots :
              /\ \A f \in flows \ {EmptyFlow} : LiveIn(produced, f, s) = LiveIn(given, f, s)
              /\ LiveIn(produced, EmptyFlow, s) =
                    (LiveIn(given, EmptyFlow, s)
                        \/ \A sp \in given : ~allows_slot(sp.gate, s))

C25_Witness ==
    /\ npc = "normalized"
    /\ Len(in_splits) = 2
    /\ in_splits[1].flow = in_splits[2].flow
    /\ in_splits[1].flow # EmptyFlow
    /\ in_splits[1].gate.type # in_splits[2].gate.type
    /\ \E s \in Slots : allows_slot(in_splits[1].gate, s) /\ ~allows_slot(in_splits[2].gate, s)
    /\ \E s \in Slots : ~allows_slot(in_splits[1].gate, s) /\ ~allows_slot(in_splits[2].gate, s)
    /\ Cardinality(produced) = 2

\* C26: SplitSet::find_walks hands back the stack it was given: slots popped
\* inside an alternative are still there for the sibling alternatives, the
\* later items of the flow and the leftover check of Flow::walks.
C26_CallerStackUntouched ==
    wpc = "done" =>
        /\ \A i \in 1..Len(in_flow) : \A s \in Slots : \A n \in 0..Len(in_stack) :
              in_flow[i].kind = "Split" =>
                  SplitSet_find_walks(in_flow[i].splits, s, SubSeq(in_stack, 1, n)).stack
                      = SubSeq(in_stack, 1, n)
        /\ (HasSplit(in_flow) /\ Len(in_stack) >= 2 /\ outcome.tag # "Empty")
              => outcome = ErrLeftover(Front(in_stack))

C26_Witness ==
    /\ wpc = "done"
    /\ in_flow = GatedNestedFlow
    /\ in_stack = <<1, 0, 0>>
    /\ outcome = ErrLeftover(<<1, 0>>)

\* Some level of f, reached only through alternatives whose gates allow the
\* slot of their level, holds a split item and is handed an empty stack.
RECURSIVE ReachesEmpty(_, _)
ReachesEmpty(f, stack) ==
    /\ HasSplit(f)
    /\ \/ stack = <<>>
       \/ \E sp \in Alternatives(f) :
             /\ allows_slot(sp.gate, stack[Len(stack)])
             /\ ReachesEmpty(sp.flow, Front(stack))

\* C27: Flow::walks fails with Empty, and no walks, exactly when a level
\* reached only through allowed alternatives holds a split item and gets an
\* empty stack; blocked alternatives are not descended into.
C27_EmptyOnlyThroughAllowed ==
    wpc = "done" =>
        /\ (outcome.tag = "Empty") = ReachesEmpty(in_flow, in_stack)
        /\ outcome.tag = "Empty" => outcome = ErrEmpty

C27_Witness ==
    /\ wpc = "done"
    /\ in_flow = GatedNestedFlow
    /\ in_stack = <<1>>
    /\ outcome.tag = "Ok"

----------------------------------------------------------------------------
(* variant/parallel.rs: WalkItemSeq::process *)

\* Longest WalkItemSeq handed to process.
MaxWalkItems == 5

WalkToken(token) == [kind |-> "Token", token |-> token, gate |-> NoGate]
Push(gate) == [kind |-> "Push", token |-> "", gate |-> gate]
Pop(gate) == [kind |-> "Pop", token |-> "", gate |-> gate]

ItemsOk(tokens) == [tag |-> "Ok", tokens |-> tokens]
EmptyStack == [tag |-> "EmptyStack"]
StackMismatch(expected, popped_gate) ==
    [tag |-> "StackMismatch", expected |-> expected, produced |-> popped_gate]
StackLeftover(leftover) == [tag |-> "StackLeftover", leftover |-> leftover]

\* Variant: a Pop takes the top gate off without comparing it.
RECURSIVE process_from(_, _, _, _)
process_from_uncompared(items, i, gate_stack, tokens) ==
    IF i > Len(items)
    THEN IF gate_stack = <<>> THEN ItemsOk(tokens) ELSE StackLeftover(gate_stack)
    ELSE LET walk_item == items[i]
         IN  CASE walk_item.kind = "Token" ->
                    process_from(items, i + 1, gate_stack, Append(tokens, walk_item.token))
               [] walk_item.kind = "Push" ->
                    process_from(items, i + 1, Append(gate_stack, walk_item.gate), tokens)
               [] walk_item.kind = "Pop" ->
                    IF gate_stack = <<>> THEN EmptyStack
                    ELSE process_from(items, i + 1, pop(gate_stack), tokens)

\* The loop of WalkItemSeq::process from item i on, and the final ensure!.
process_from(items, i, gate_stack, tokens) ==
    IF i > Len(items)
    THEN IF gate_stack = <<>> THEN ItemsOk(tokens) ELSE StackLeftover(gate_stack)
    ELSE LET walk_item == items[i]
         IN  CASE walk_item.kind = "Token" ->
                    process_from(items, i + 1, gate_stack, Append(tokens, walk_item.token))
               [] walk_item.kind = "Push" ->
                    process_from(items, i + 1, Append(gate_stack, walk_item.gate), tokens)
               [] walk_item.kind = "Pop" ->
                    IF gate_stack = <<>> THEN EmptyStack
                    ELSE LET popped == gate_stack[Len(gate_stack)]
                         IN  IF walk_item.gate # popped
                             THEN StackMismatch(walk_item.gate, popped)
                             ELSE process_from(items, i + 1, pop(gate_stack), tokens)

process(items) == process_from(items, 1, <<>>, <<>>)

\* Two gates that allow the same slots and differ in structure.
ItemGates == {Allow(Slots), allow_all}

WalkItems ==
    {WalkToken("apple"), WalkToken("banana")}
        \cup {Push(g) : g \in ItemGates} \cup {Pop(g) : g \in ItemGates}

InitItems ==
    /\ walk_items \in SeqsUpTo(WalkItems, MaxWalkItems)
    /\ processed = [tag |-> "None"]
    /\ ppc = "ready"
    /\ NormIdle
    /\ WalkIdle
    /\ OrderIdle
    /\ GateIdle
    /\ VariantIdle
    /\ ScopeIdle
    /\ MetaIdle

\* WalkItemSeq(walk_items).process()
Process ==
    /\ ppc = "ready"
    /\ processed' = process(walk_items)
    /\ ppc' = "done"
    /\ UNCHANGED <<walk_items, normVars, walkVars, orderVars, gateVars, variant_produced,
                   scopeVars, metaVars>>

NextItems == Process

SpecItems == InitItems /\ [][NextItems]_vars

\* The Push and Pop items of a sequence, and its tokens, in order.
Brackets(items) == SelectSeq(items, LAMBDA it : it.kind # "Token")
TokensIn(items) ==
    LET ts == SelectSeq(items, LAMBDA it : it.kind = "Token")
    IN  [k \in 1..Len(ts) |-> ts[k].token]

\* A Push directly followed by the Pop of a structurally equal gate.
ClosedAt(w, k) == w[k].kind = "Push" /\ w[k + 1].kind = "Pop" /\ w[k].gate = w[k + 1].gate

\* w with such pairs deleted until none is left; empty iff w is well nested
\* with every Pop carrying the gate of its Push.
RECURSIVE Reduced(_)
Reduced(w) ==
    IF \E k \in 1..(Len(w) - 1) : ClosedAt(w, k)
    THEN LET k == CHOOSE j \in 1..(Len(w) - 1) : ClosedAt(w, j)
         IN  Reduced(SubSeq(w, 1, k - 1) \o SubSeq(w, k + 2, Len(w)))
    ELSE w

\* C29: process returns Ok exactly when the Push and Pop items are well
\* nested with equal gates, and then the tokens in order; otherwise the first
\* unmatched Pop gives EmptyStack on an empty stack and StackMismatch on a
\* different top gate, and with no unmatched Pop the unclosed Push gates come
\* back in StackLeftover from bottom to top.
C29_ProcessChecksNesting ==
    ppc = "done" =>
        LET r == Reduced(Brackets(walk_items))
            pops == {k \in 1..Len(r) : r[k].kind = "Pop"}
        IN  /\ (processed.tag = "Ok") = (r = <<>>)
            /\ processed.tag = "Ok" => processed.tokens = TokensIn(walk_items)
            /\ (r # <<>> /\ pops = {}) =>
                  processed = StackLeftover([k \in 1..Len(r) |-> r[k].gate])
            /\ pops # {} =>
                  LET first == CHOOSE k \in pops : \A j \in pops : k <= j
                  IN  IF first = 1 THEN processed = EmptyStack
                      ELSE processed = StackMismatch(r[first].gate, r[first - 1].gate)

C29_Witness ==
    /\ ppc = "done"
    /\ Len(walk_items) = 5
    /\ walk_items[1].kind = "Push"
    /\ walk_items[2].kind = "Push"
    /\ walk_items[1].gate # walk_items[2].gate
    /\ walk_items[3].kind = "Token"
    /\ processed = ItemsOk(<<walk_items[3].token>>)

----------------------------------------------------------------------------
\* C30: normalize_splits of flow.rs returns the same set of (sub-flow, gate)
\* pairs as the procedure of cow_flow.rs and split.rs, which computes the
\* union first, appends the escape hatch, drops block-all and then groups.
C30_VariantsAgree == npc \in {"cow", "earlier"} => variant_produced = produced

C30_Witness ==
    /\ npc = "cow"
    /\ Len(in_splits) = 2
    /\ in_splits[1].flow = EmptyFlow
    /\ in_splits[1].gate = Allow({0})
    /\ is_block_all(in_splits[2].gate)
    /\ variant_produced = {Split(EmptyFlow, allow_all)}

====
